---- MODULE Spec2Model ----
(***************************************************************************)
(* A model of main.py of arxiv_scraper: the download loop of main() and    *)
(* the PDF to markdown conversion of convert_pdf_to_markdown().            *)
(*                                                                         *)
(* The text of a page, the markdown and a query are sequences of           *)
(* characters, each a string of length one; a character TLA+ cannot write  *)
(* is named by its Python escape ("\\x0b").  The lines of the console and   *)
(* the paths are sequences of pieces: characters and texts that are never  *)
(* taken apart ("Searching for ", "./pdfs/", "paper1", ".pdf").            *)
(*                                                                         *)
(* The collaborators of main() are its environment.  The result sequence   *)
(* of a search yields a record, ends or raises at each pull; the i-th      *)
(* record of a search has the title "paper<i>"; download_pdf writes the    *)
(* whole file, or raises and leaves nothing or a part of the file; the PDF *)
(* it writes is one pypdf reads or one it fails on; writing the .md file   *)
(* may raise at open() or, the file opened, with any part of the text      *)
(* written; os.makedirs may fail at any directory, there already or to be  *)
(* made.  main() starts in a working directory without directories pdfs/   *)
(* and mds/; a file or a link there may have the name of a directory that  *)
(* is to be made.  calls records what the collaborators were asked and     *)
(* what they answered.  Paths have no "." and no ".." component.           *)
(***************************************************************************)
EXTENDS Integers, Sequences, FiniteSets, TLC

VARIABLES
    query_list,     \* args.query_list
    markdown,       \* args.markdown
    pc,             \* position of main(): query, results, download, convert, done, aborted
    qi,             \* position of each_query in query_list
    index,          \* records the result generator has yielded for this query (index + 1 of the code)
    title,          \* each_result.title
    dirs,           \* directories of the file system
    files,          \* files of the file system: path -> content
    log,            \* lines printed on the console
    calls,          \* calls main() made to its collaborators, with their outcomes
    exc,            \* the exception that left main() uncaught, "" when none
    pdf_pages,      \* convert_pdf_to_markdown: pdf_reader.pages, the text of each page
    page_num,       \* convert_pdf_to_markdown: pages converted so far
    markdown_text,  \* convert_pdf_to_markdown: the markdown built so far
    cpc             \* convert_pdf_to_markdown: idle, loop, returned

mainVars == <<query_list, markdown, pc, qi, index, title, dirs, files, log, calls, exc>>
convVars == <<pdf_pages, page_num, markdown_text, cpc>>
vars == <<query_list, markdown, pc, qi, index, title, dirs, files, log, calls, exc,
          pdf_pages, page_num, markdown_text, cpc>>

(***************************************************************************)
(* Bounds of the model.                                                    *)
(***************************************************************************)
\* queries on the command line
MaxQueries == 2
\* args.max_results: the records one search yields at most
MaxResults == 2
\* records yielded in the whole run
MaxRecords == 2
\* characters of the markdown a failing write has written
MaxWritten == 1
\* pages of a PDF
MaxPages == 2
\* pieces of page text in a PDF, all pages together: a piece is a character
\* or the text "## Page 1"
MaxChars == 4

(***************************************************************************)
(* Strings.                                                                *)
(***************************************************************************)
\* str.replace(old, new) for a one-character old
Replace(s, old, new) == [i \in 1..Len(s) |-> IF s[i] = old THEN new ELSE s[i]]

\* the characters str.strip() removes: those of str.isspace()
Whitespace ==
    {"\t", "\n", "\\x0b", "\f", "\r", "\\x1c", "\\x1d", "\\x1e", "\\x1f", " ",
     "\\x85", "\\xa0", "\\u1680", "\\u2000", "\\u2001", "\\u2002", "\\u2003",
     "\\u2004", "\\u2005", "\\u2006", "\\u2007", "\\u2008", "\\u2009", "\\u200a",
     "\\u2028", "\\u2029", "\\u202f", "\\u205f", "\\u3000"}

IsSpace(c) == c \in Whitespace

RECURSIVE LStrip(_)
LStrip(s) == IF s # <<>> /\ IsSpace(Head(s)) THEN LStrip(Tail(s)) ELSE s

RECURSIVE RStrip(_)
RStrip(s) ==
    IF s # <<>> /\ IsSpace(s[Len(s)]) THEN RStrip(SubSeq(s, 1, Len(s) - 1)) ELSE s

\* str.strip()
Strip(s) == RStrip(LStrip(s))

\* str.split('\n\n'): the pieces between the non-overlapping occurrences of
\* two line breaks, found from the left; cur is the piece being read
RECURSIVE SplitFrom(_, _)
SplitFrom(s, cur) ==
    IF s = <<>> THEN <<cur>>
    ELSE IF Len(s) >= 2 /\ s[1] = "\n" /\ s[2] = "\n"
         THEN <<cur>> \o SplitFrom(SubSeq(s, 3, Len(s)), <<>>)
         ELSE SplitFrom(Tail(s), Append(cur, Head(s)))

SplitBlank(s) == SplitFrom(s, <<>>)

(***************************************************************************)
(* convert_pdf_to_markdown.                                                *)
(***************************************************************************)
\* the digits of n
RECURSIVE DigitsOf(_)
DigitsOf(n) ==
    IF n < 10 THEN <<ToString(n)>> ELSE DigitsOf(n \div 10) \o <<ToString(n % 10)>>

\* "## Page <n>"
PageHeading(n) == <<"#", "#", " ", "P", "a", "g", "e", " ">> \o DigitsOf(n)

\* the header with page_num for page_num + 1
PageHeaderFromZero(n) == <<"\n">> \o PageHeading(n - 1) \o <<"\n", "\n">>

\* f"\n## Page {page_num + 1}\n\n", n the number of the page
PageHeader(n) == <<"\n">> \o PageHeading(n) \o <<"\n", "\n">>

\* the paragraph without its .strip()
CleanParagraphNoStrip(paragraph) == Replace(paragraph, "\n", " ")

\* paragraph.replace('\n', ' ').strip()
CleanParagraph(paragraph) == Strip(Replace(paragraph, "\n", " "))

\* what one candidate paragraph adds to markdown_text
ParagraphBlock(paragraph) ==
    LET clean_paragraph == CleanParagraph(paragraph)
    IN  IF clean_paragraph # <<>> THEN clean_paragraph \o <<"\n", "\n">> ELSE <<>>

\* the loop over the paragraphs of one page
RECURSIVE ParagraphsMarkdown(_)
ParagraphsMarkdown(paragraphs) ==
    IF paragraphs = <<>> THEN <<>>
    ELSE ParagraphBlock(Head(paragraphs)) \o ParagraphsMarkdown(Tail(paragraphs))

\* what the page with index page (from 0) and the given text adds to markdown_text
PageMarkdown(page, text) ==
    PageHeader(page + 1) \o ParagraphsMarkdown(SplitBlank(text))

\* the markdown of the pages from index page on
RECURSIVE PagesMarkdown(_, _)
PagesMarkdown(pages, page) ==
    IF page >= Len(pages) THEN <<>>
    ELSE PageMarkdown(page, pages[page + 1]) \o PagesMarkdown(pages, page + 1)

\* convert_pdf_to_markdown on a readable PDF
ConvertPdfToMarkdown(pages) == PagesMarkdown(pages, 0)

(***************************************************************************)
(* The PDFs given to the conversion: those of at most MaxPages pages and   *)
(* MaxChars pieces of text.                                                *)
(***************************************************************************)
TextAtoms == {"a", " ", "\n", "\r", "## Page 1"}

\* the characters of a piece of page text
Chars(piece) == IF piece = "## Page 1" THEN PageHeading(1) ELSE <<piece>>

\* a PDF written as one sequence: the pieces of each page and the end of the page
PageEnd == "<end of page>"

RECURSIVE CountOf(_, _)
CountOf(f, a) ==
    IF f = <<>> THEN 0 ELSE (IF Head(f) = a THEN 1 ELSE 0) + CountOf(Tail(f), a)

IsDoc(f) ==
    /\ f # <<>> => f[Len(f)] = PageEnd
    /\ CountOf(f, PageEnd) <= MaxPages
    /\ Len(f) - CountOf(f, PageEnd) <= MaxChars

\* the texts of the pages of the PDF written as f
RECURSIVE PagesOf(_, _)
PagesOf(f, cur) ==
    IF f = <<>> THEN <<>>
    ELSE IF Head(f) = PageEnd THEN <<cur>> \o PagesOf(Tail(f), <<>>)
    ELSE PagesOf(Tail(f), cur \o Chars(Head(f)))

(***************************************************************************)
(* main(): inputs, paths, log lines.                                       *)
(***************************************************************************)
\* the queries of the command line: two of them name the same directories,
\* the third names as its directory the PDF of the first record of the others
Queries == {<<"a", " ", "b">>, <<"a", "_", "b">>, <<"a", "_", "b", "/", "paper1", ".pdf">>}

QueryLists == UNION {[1..n -> Queries] : n \in 1..MaxQueries}

\* the title of the i-th record a search yields
ResultTitle(i) == <<"paper" \o ToString(i)>>

\* what a download can leave on disk: a PDF pypdf reads, or one it fails on
PdfFile(readable, pages) == [readable |-> readable, pages |-> pages, text |-> <<>>]
MdFile(text) == [readable |-> TRUE, pages |-> <<>>, text |-> text]

PdfContents == {PdfFile(TRUE, <<<<"a", "\n", "b">>>>), PdfFile(FALSE, <<>>)}

\* f"./pdfs/{each_query.replace(' ', '_')}/"
OutputPdfDir(each_query) == <<"./pdfs/">> \o Replace(each_query, " ", "_") \o <<"/">>

\* f"./mds/{each_query.replace(' ', '_')}/"
OutputMdDir(each_query) == <<"./mds/">> \o Replace(each_query, " ", "_") \o <<"/">>

\* f"{output_pdf_dir}{each_result.title}.pdf"
PdfPath(each_query, t) == OutputPdfDir(each_query) \o t \o <<".pdf">>

\* f"{output_md_dir}{each_result.title}.md"
MdPath(each_query, t) == OutputMdDir(each_query) \o t \o <<".md">>

\* the exist_ok argument of os.makedirs
ExistOkFalse == FALSE
ExistOk == TRUE

\* an atom that ends a directory name
EndsDir(a) == a \in {"/", "./pdfs/", "./mds/"}

\* the path as the file system reads it: a "/" after a "/" counts for nothing
RECURSIVE NormFrom(_, _)
NormFrom(path, slash) ==
    IF path = <<>> THEN <<>>
    ELSE IF slash /\ Head(path) = "/" THEN NormFrom(Tail(path), TRUE)
    ELSE <<Head(path)>> \o NormFrom(Tail(path), EndsDir(Head(path)))

Norm(path) == NormFrom(path, FALSE)

\* the directory d and the directories above it, d ending with "/"
DirPrefixes(d) == {SubSeq(d, 1, k) : k \in {n \in 1..Len(d) : EndsDir(d[n])}}

\* the directory name d read as the name of a file
AsFile(d) == IF d[Len(d)] = "/" THEN SubSeq(d, 1, Len(d) - 1) ELSE d

\* the exception os.makedirs(n, exist_ok=ExistOk) raises, "" when none: ds the
\* directories and fs the files there are, n without a "/" after a "/"
MakedirsErrorAt(ds, fs, n) ==
    IF AsFile(n) \in fs THEN "FileExistsError"
    ELSE IF \E p \in DirPrefixes(n) : AsFile(p) \in fs THEN "NotADirectoryError"
    ELSE IF n \in ds /\ ~ExistOk THEN "FileExistsError"
    ELSE ""

\* the same for the directory as main() names it
MakedirsError(ds, fs, d) == CHOOSE e \in {MakedirsErrorAt(ds, fs, n) : n \in {Norm(d)}} : TRUE

\* os.makedirs left out
MakedirsNothing(ds, d) == ds

\* os.makedirs(d): d and every directory above it
Makedirs(ds, d) == ds \cup UNION {DirPrefixes(n) : n \in {Norm(d)}}

\* what os.mkdir raises inside os.makedirs for a cause that lies outside the
\* directories and files of the run: OSError (a name too long, no space),
\* PermissionError (a directory on the way cannot be written or searched),
\* FileNotFoundError (a dangling link on the way, the working directory
\* removed). os.makedirs always calls os.mkdir for d itself and lets
\* exist_ok pass the error only when it then sees d as a directory, so these
\* are raised for directories that are there as well
MkdirFaults == {"OSError", "PermissionError", "FileNotFoundError"}

\* the directories there can be when os.mkdir fails inside os.makedirs(d):
\* those there before and any number of the missing ones above the failing
\* one, made from the top down where no file has the name
MadeBeforeFault(ds, fs, d) ==
    {ds} \cup
    UNION {{made \in {ds \cup {q \in DirPrefixes(n) : Len(q) < Len(p)} : p \in DirPrefixes(n) \ ds} :
               \A q \in made \ ds : AsFile(q) \notin fs} :
              n \in {Norm(d)}}

\* the first directory os.makedirs(n) has to make, none when all are there
FirstToMake(ds, n) ==
    {p \in DirPrefixes(n) \ ds : \A q \in DirPrefixes(n) \ ds : Len(p) <= Len(q)}

\* what os.makedirs(d) raises when the name of the first directory it has to
\* make is taken by something that is no directory and no file of the run (a
\* file or a link to a file that was in the working directory, named pdfs,
\* mds or lower): os.mkdir fails and nothing is made; FileExistsError when it
\* is d itself, as exist_ok passes the error only for a directory,
\* NotADirectoryError when it is above d
NonDirectoryOutcomes(ds, d) ==
    UNION {{[error |-> IF p = n THEN "FileExistsError" ELSE "NotADirectoryError", dirs |-> ds] :
               p \in FirstToMake(ds, n)} : n \in {Norm(d)}}

\* the ways os.makedirs(d, exist_ok=ExistOk) can end: the exception raised,
\* "" when none, and the directories there are afterwards
MakedirsOutcomes(ds, fs, d) ==
    (IF MakedirsError(ds, fs, d) # ""
     THEN {[error |-> MakedirsError(ds, fs, d), dirs |-> ds]}
     ELSE {[error |-> "", dirs |-> Makedirs(ds, d)]})
    \cup {[error |-> e, dirs |-> made] : e \in MkdirFaults, made \in MadeBeforeFault(ds, fs, d)}
    \cup NonDirectoryOutcomes(ds, d)

\* a file can be opened for writing at path: its directory is there and path
\* is no directory
CanWrite(path) ==
    LET n == Norm(path)
    IN  /\ \E k \in 1..(Len(n) - 1) : EndsDir(n[k]) /\ SubSeq(n, 1, k) \in dirs
                                      /\ \A j \in (k + 1)..Len(n) : ~EndsDir(n[j])
        /\ Append(n, "/") \notin dirs

\* the files with content written at path
WriteFile(path, content) ==
    [p \in DOMAIN files \cup {Norm(path)} |-> IF p = Norm(path) THEN content ELSE files[p]]

Line(level, msg) == [level |-> level, msg |-> msg]

SearchingLine(each_query) == Line("info", <<"Searching for ">> \o each_query)
DownloadingLine(i, t) ==
    Line("info", <<"Downloading ", ToString(i), "/", ToString(MaxResults), ": ">> \o t)
DownloadedLine(t) == Line("success", <<"Downloaded ">> \o t)
ConvertedLine(t) == Line("success", <<"Converted ">> \o t \o <<" to Markdown">>)
ErrorConvertingLine(t, e) ==
    Line("error", <<"Error converting ">> \o t \o <<" to Markdown: ", e>>)
ErrorDownloadingLine(t, e) == Line("error", <<"Error downloading ">> \o t \o <<": ", e>>)
\* the print() of convert_pdf_to_markdown before it raises again
NotFoundLine(path) == Line("print", <<"Error: PDF file not found at ">> \o path)
ReadErrorLine(e) == Line("print", <<"Error reading PDF file: ", e>>)

Call(op, q, i, out) == [op |-> op, q |-> q, i |-> i, out |-> out]

\* records yielded so far in the run
Yielded == Cardinality({k \in 1..Len(calls) : calls[k].out = "yield"})

each_query == query_list[qi]

(***************************************************************************)
(* main(): the steps.                                                      *)
(***************************************************************************)
Init ==
    /\ query_list \in QueryLists
    /\ markdown \in BOOLEAN
    /\ pc = "query"
    /\ qi = 1
    /\ index = 0
    /\ title = <<>>
    /\ dirs = {}
    /\ files = <<>>
    /\ log = <<>>
    /\ calls = <<>>
    /\ exc = ""
    /\ pdf_pages = <<>>
    /\ page_num = 0
    /\ markdown_text = <<>>
    /\ cpc = "idle"

\* the head of the loop over the queries: the log line and the two
\* os.makedirs; an exception of either leaves main()
StartQuery ==
    /\ pc = "query"
    /\ log' = Append(log, SearchingLine(each_query))
    /\ \E pdf \in MakedirsOutcomes(dirs, DOMAIN files, OutputPdfDir(each_query)) :
          IF pdf.error # ""
          THEN /\ pc' = "aborted" /\ exc' = pdf.error
               /\ dirs' = pdf.dirs
               /\ UNCHANGED index
          ELSE \E md \in MakedirsOutcomes(pdf.dirs, DOMAIN files, OutputMdDir(each_query)) :
                  /\ dirs' = md.dirs
                  /\ IF md.error # ""
                     THEN /\ pc' = "aborted" /\ exc' = md.error
                          /\ UNCHANGED index
                     ELSE /\ pc' = "results" /\ index' = 0
                          /\ UNCHANGED exc
    /\ UNCHANGED <<query_list, markdown, qi, title, files, calls>>
    /\ UNCHANGED convVars

\* client.results(search) yields the next record; the "Downloading" line
YieldResult ==
    /\ pc = "results"
    /\ index < MaxResults
    /\ Yielded < MaxRecords
    /\ index' = index + 1
    /\ title' = ResultTitle(index + 1)
    /\ calls' = Append(calls, Call("results", qi, index + 1, "yield"))
    /\ log' = Append(log, DownloadingLine(index + 1, ResultTitle(index + 1)))
    /\ pc' = "download"
    /\ UNCHANGED <<query_list, markdown, qi, dirs, files, exc>>
    /\ UNCHANGED convVars

\* client.results(search) is exhausted: the next query, or the end of main()
ResultsExhausted ==
    /\ pc = "results"
    /\ calls' = Append(calls, Call("results", qi, index, "stop"))
    /\ IF qi < Len(query_list)
       THEN pc' = "query" /\ qi' = qi + 1
       ELSE pc' = "done" /\ qi' = qi
    /\ UNCHANGED <<query_list, markdown, index, title, dirs, files, log, exc>>
    /\ UNCHANGED convVars

\* client.results(search) raises inside a try that logs and goes on
ResultsRaiseCaught ==
    /\ pc = "results"
    /\ calls' = Append(calls, Call("results", qi, index, "raise"))
    /\ log' = Append(log, Line("error", <<"Error searching ", "results failed">>))
    /\ IF qi < Len(query_list)
       THEN pc' = "query" /\ qi' = qi + 1
       ELSE pc' = "done" /\ qi' = qi
    /\ UNCHANGED <<query_list, markdown, index, title, dirs, files, exc>>
    /\ UNCHANGED convVars

\* client.results(search) raises: nothing in main() catches it
ResultsRaise ==
    /\ pc = "results"
    /\ calls' = Append(calls, Call("results", qi, index, "raise"))
    /\ pc' = "aborted"
    /\ exc' = "ResultsError"
    /\ UNCHANGED <<query_list, markdown, qi, index, title, dirs, files, log>>
    /\ UNCHANGED convVars

\* each_result.download_pdf(...) returns; the "Downloaded" line
DownloadOk ==
    /\ pc = "download"
    /\ CanWrite(PdfPath(each_query, title))
    /\ \E content \in PdfContents : files' = WriteFile(PdfPath(each_query, title), content)
    /\ calls' = Append(calls, Call("download_pdf", qi, index, "ok"))
    /\ log' = Append(log, DownloadedLine(title))
    /\ pc' = "convert"
    /\ UNCHANGED <<query_list, markdown, qi, index, title, dirs, exc>>
    /\ UNCHANGED convVars

\* the outer except with break: the records left of the query are dropped
DownloadFailBreak ==
    /\ pc = "download"
    /\ calls' = Append(calls, Call("download_pdf", qi, index, "fail"))
    /\ log' = Append(log, ErrorDownloadingLine(title, "download failed"))
    /\ IF qi < Len(query_list)
       THEN pc' = "query" /\ qi' = qi + 1
       ELSE pc' = "done" /\ qi' = qi
    /\ UNCHANGED <<query_list, markdown, index, title, dirs, files, exc>>
    /\ UNCHANGED convVars

\* download_pdf outside any try: its exception leaves main()
DownloadFailRaise ==
    /\ pc = "download"
    /\ calls' = Append(calls, Call("download_pdf", qi, index, "fail"))
    /\ pc' = "aborted"
    /\ exc' = "DownloadError"
    /\ UNCHANGED <<query_list, markdown, qi, index, title, dirs, files, log>>
    /\ UNCHANGED convVars

\* the outer except with pass alone: nothing is logged
DownloadFailSilent ==
    /\ pc = "download"
    /\ calls' = Append(calls, Call("download_pdf", qi, index, "fail"))
    /\ pc' = "results"
    /\ UNCHANGED <<query_list, markdown, qi, index, title, dirs, files, log, exc>>
    /\ UNCHANGED convVars

\* each_result.download_pdf(...) raises, before it wrote or with a part of
\* the file written; the outer except
DownloadFail ==
    /\ pc = "download"
    /\ \E partial \in BOOLEAN :
          IF partial
          THEN /\ CanWrite(PdfPath(each_query, title))
               /\ files' = WriteFile(PdfPath(each_query, title), PdfFile(FALSE, <<>>))
          ELSE files' = files
    /\ calls' = Append(calls, Call("download_pdf", qi, index, "fail"))
    /\ log' = Append(log, ErrorDownloadingLine(title, "download failed"))
    /\ pc' = "results"
    /\ UNCHANGED <<query_list, markdown, qi, index, title, dirs, exc>>
    /\ UNCHANGED convVars

\* the PDF at path is there and pypdf reads it
PdfReadable(path) == Norm(path) \in DOMAIN files /\ files[Norm(path)].readable

\* the conversion without the test of args.markdown
ConvertIgnoringFlag ==
    /\ pc = "convert"
    /\ ~markdown
    /\ \E pdf \in {files[Norm(PdfPath(each_query, title))]} :
          files' = WriteFile(MdPath(each_query, title),
                             MdFile(ConvertPdfToMarkdown(pdf.pages)))
    /\ calls' = Append(calls, Call("convert", qi, index, "ok"))
    /\ log' = Append(log, ConvertedLine(title))
    /\ pc' = "results"
    /\ UNCHANGED <<query_list, markdown, qi, index, title, dirs, exc>>
    /\ UNCHANGED convVars

\* args.markdown is off: the body of the inner try does nothing
SkipConvert ==
    /\ pc = "convert"
    /\ ~markdown
    /\ pc' = "results"
    /\ UNCHANGED <<query_list, markdown, qi, index, title, dirs, files, log, calls, exc>>
    /\ UNCHANGED convVars

\* convert_pdf_to_markdown returns and the .md file is written; the "Converted" line
ConvertOk ==
    /\ pc = "convert"
    /\ markdown
    /\ PdfReadable(PdfPath(each_query, title))
    /\ CanWrite(MdPath(each_query, title))
    /\ \E pdf \in {files[Norm(PdfPath(each_query, title))]} :
          files' = WriteFile(MdPath(each_query, title),
                             MdFile(ConvertPdfToMarkdown(pdf.pages)))
    /\ calls' = Append(calls, Call("convert", qi, index, "ok"))
    /\ log' = Append(log, ConvertedLine(title))
    /\ pc' = "results"
    /\ UNCHANGED <<query_list, markdown, qi, index, title, dirs, exc>>
    /\ UNCHANGED convVars

\* the conversion without its own try: the outer except takes its exception
ConvertReadFailOuter ==
    /\ pc = "convert"
    /\ markdown
    /\ ~PdfReadable(PdfPath(each_query, title))
    /\ calls' = Append(calls, Call("convert", qi, index, "fail"))
    /\ log' = log \o <<ReadErrorLine("unreadable"),
                       ErrorDownloadingLine(title, "unreadable")>>
    /\ pc' = "results"
    /\ UNCHANGED <<query_list, markdown, qi, index, title, dirs, files, exc>>
    /\ UNCHANGED convVars

\* convert_pdf_to_markdown prints and raises (FileNotFoundError, PdfReadError);
\* the inner except
ConvertReadFail ==
    /\ pc = "convert"
    /\ markdown
    /\ ~PdfReadable(PdfPath(each_query, title))
    /\ calls' = Append(calls, Call("convert", qi, index, "fail"))
    /\ log' = IF Norm(PdfPath(each_query, title)) \in DOMAIN files
              THEN log \o <<ReadErrorLine("unreadable"),
                            ErrorConvertingLine(title, "unreadable")>>
              ELSE log \o <<NotFoundLine(PdfPath(each_query, title)),
                            ErrorConvertingLine(title, "not found")>>
    /\ pc' = "results"
    /\ UNCHANGED <<query_list, markdown, qi, index, title, dirs, files, exc>>
    /\ UNCHANGED convVars

\* convert_pdf_to_markdown raises an exception it has no except clause for
\* and prints nothing; the inner except
ConvertOtherFail ==
    /\ pc = "convert"
    /\ markdown
    /\ ~PdfReadable(PdfPath(each_query, title))
    /\ calls' = Append(calls, Call("convert", qi, index, "fail"))
    /\ log' = Append(log, ErrorConvertingLine(title, "malformed"))
    /\ pc' = "results"
    /\ UNCHANGED <<query_list, markdown, qi, index, title, dirs, files, exc>>
    /\ UNCHANGED convVars

\* convert_pdf_to_markdown returns and the writing of the .md file raises: at
\* open(..., "w"), or, the file opened and so made empty, with the first
\* written characters of the text in it, MaxWritten at most; the inner except
ConvertWriteFail ==
    /\ pc = "convert"
    /\ markdown
    /\ PdfReadable(PdfPath(each_query, title))
    /\ \/ files' = files
       \/ /\ CanWrite(MdPath(each_query, title))
          /\ \E pdf \in {files[Norm(PdfPath(each_query, title))]} :
                \E markdown_content \in {ConvertPdfToMarkdown(pdf.pages)} :
                    \E written \in {n \in 0..Len(markdown_content) : n <= MaxWritten} :
                        files' = WriteFile(MdPath(each_query, title),
                                           MdFile(SubSeq(markdown_content, 1, written)))
    /\ calls' = Append(calls, Call("write_md", qi, index, "fail"))
    /\ log' = Append(log, ErrorConvertingLine(title, "write failed"))
    /\ pc' = "results"
    /\ UNCHANGED <<query_list, markdown, qi, index, title, dirs, exc>>
    /\ UNCHANGED convVars

Next ==
    \/ StartQuery
    \/ YieldResult
    \/ ResultsExhausted
    \/ ResultsRaise
    \/ DownloadOk
    \/ DownloadFail
    \/ SkipConvert
    \/ ConvertOk
    \/ ConvertReadFail
    \/ ConvertOtherFail
    \/ ConvertWriteFail

Spec == Init /\ [][Next]_vars

(***************************************************************************)
(* convert_pdf_to_markdown on its own: the loop over the pages of a PDF.   *)
(***************************************************************************)
ConvInit ==
    /\ \E k \in 0..(MaxPages + MaxChars) :
          \E f \in [1..k -> TextAtoms \cup {PageEnd}] :
              IsDoc(f) /\ pdf_pages = PagesOf(f, <<>>)
    /\ page_num = 0
    /\ markdown_text = <<>>
    /\ cpc = "loop"
    /\ query_list = <<>>
    /\ markdown = TRUE
    /\ pc = "convert"
    /\ qi = 0
    /\ index = 0
    /\ title = <<>>
    /\ dirs = {}
    /\ files = <<>>
    /\ log = <<>>
    /\ calls = <<>>
    /\ exc = ""

\* one turn of the loop over the pages
ConvPage ==
    /\ cpc = "loop"
    /\ page_num < Len(pdf_pages)
    /\ markdown_text' = markdown_text \o PageMarkdown(page_num, pdf_pages[page_num + 1])
    /\ page_num' = page_num + 1
    /\ UNCHANGED <<pdf_pages, cpc>>
    /\ UNCHANGED mainVars

\* return markdown_text
ConvReturn ==
    /\ cpc = "loop"
    /\ page_num = Len(pdf_pages)
    /\ cpc' = "returned"
    /\ UNCHANGED <<pdf_pages, page_num, markdown_text>>
    /\ UNCHANGED mainVars

ConvNext == ConvPage \/ ConvReturn

ConvSpec == ConvInit /\ [][ConvNext]_vars

(***************************************************************************)
(* Reading the console: which query and which record a line belongs to.    *)
(***************************************************************************)
\* the text a log line starts with
Kind(l) == l.msg[1]

LinesOfKind(kind) == {k \in 1..Len(log) : Kind(log[k]) = kind}

\* line k belongs to the q-th query of the run: q "Searching for" lines up to it
QueryOfLine(k) == Cardinality({j \in 1..k : Kind(log[j]) = "Searching for "})

\* the last "Searching for" line up to line k, 0 when there is none
LastSearching(k) ==
    LET before == {j \in 1..k : Kind(log[j]) = "Searching for "}
    IN  IF before = {} THEN 0 ELSE CHOOSE m \in before : \A j \in before : j <= m

\* line k belongs to the i-th record of its query: i "Downloading" lines since
\* the last "Searching for" line
RecordOfLine(k) ==
    Cardinality({j \in (LastSearching(k) + 1)..k : Kind(log[j]) = "Downloading "})

\* the lines of the given kind of record i of query q
RecordLines(q, i, kind) ==
    {k \in LinesOfKind(kind) : QueryOfLine(k) = q /\ RecordOfLine(k) = i}

\* the lines of the given kind of query q
QueryLines(q, kind) == {k \in LinesOfKind(kind) : QueryOfLine(k) = q}

CallsWith(op, q, i, out) == {k \in 1..Len(calls) : calls[k] = Call(op, q, i, out)}

\* the records the search of query q has yielded
YieldedOf(q) == {c \in 1..Len(calls) : calls[c].op = "results" /\ calls[c].q = q
                                       /\ calls[c].out = "yield"}

\* record i of query q is the one between its "Downloading" line and the
\* return of its download_pdf
InFlight(q, i) == pc = "download" /\ qi = q /\ index = i

ErrorKinds == {"Error downloading ", "Error converting ",
               "Error: PDF file not found at ", "Error reading PDF file: "}

(***************************************************************************)
(* C1: a failed download never stops the loop over the records of a query: *)
(* every yielded record gets one download_pdf call of its own, a failed    *)
(* one leaves one "Error downloading" line and is followed by the next     *)
(* pull of the result sequence, and a record after a failed one whose own  *)
(* download succeeds has its "Downloaded" line and its PDF file.           *)
(***************************************************************************)
C1_FailureDoesNotStopLoop ==
    \A c \in 1..Len(calls) :
        LET q == calls[c].q
            i == calls[c].i
        IN  /\ (calls[c].op = "results" /\ calls[c].out = "yield") =>
                   Cardinality(CallsWith("download_pdf", q, i, "ok")
                               \cup CallsWith("download_pdf", q, i, "fail"))
                       = (IF InFlight(q, i) THEN 0 ELSE 1)
            /\ calls[c] = Call("download_pdf", q, i, "fail") =>
                   /\ Cardinality(RecordLines(q, i, "Error downloading ")) = 1
                   /\ \/ pc = "results" /\ qi = q /\ index = i
                      \/ \E d \in (c + 1)..Len(calls) :
                            calls[d].op = "results" /\ calls[d].q = q
                            /\ calls[d].i \in {i, i + 1}
                   /\ CallsWith("download_pdf", q, i + 1, "ok") # {} =>
                         /\ Cardinality(RecordLines(q, i + 1, "Downloaded ")) = 1
                         /\ Norm(PdfPath(query_list[q], ResultTitle(i + 1))) \in DOMAIN files

\* record 1 of a query failed and record 2 of it was downloaded
C1_Witness ==
    \E q \in 1..Len(query_list) :
        /\ CallsWith("download_pdf", q, 1, "fail") # {}
        /\ CallsWith("download_pdf", q, 2, "ok") # {}

(***************************************************************************)
(* C2, as claimed: whatever fails, the run ends only after every query of  *)
(* query_list had its "Searching for" step.                                *)
(***************************************************************************)
C2_Original ==
    pc \in {"done", "aborted"} =>
        pc = "done" /\ Cardinality(LinesOfKind("Searching for ")) = Len(query_list)

\* steps main() has left at most: three for a record, two more for a query
QuerySteps == 3 * MaxResults + 2

Measure ==
    IF pc \in {"done", "aborted"} THEN 0
    ELSE (Len(query_list) - qi) * QuerySteps
         + (CASE pc = "query" -> QuerySteps
              [] pc = "results" -> 3 * (MaxResults - index) + 1
              [] pc = "download" -> 3 * (MaxResults - index) + 3
              [] pc = "convert" -> 3 * (MaxResults - index) + 2)

\* the "Searching for" lines are those of query_list, in its order
AllSearched ==
    /\ Cardinality(LinesOfKind("Searching for ")) = Len(query_list)
    /\ \A k \in LinesOfKind("Searching for ") :
          log[k] = SearchingLine(query_list[QueryOfLine(k)])

C2_State ==
    /\ pc = "done" => AllSearched /\ exc = ""
    /\ pc = "aborted" =>
          \/ /\ exc = "ResultsError"
             /\ calls # <<>> /\ calls[Len(calls)] = Call("results", qi, index, "raise")
          \/ /\ exc \in {"FileExistsError", "NotADirectoryError"}
             /\ log[Len(log)] = SearchingLine(each_query)
             /\ \A c \in 1..Len(calls) : calls[c].q # qi
             /\ Norm(OutputPdfDir(each_query)) \notin dirs
                    \/ Norm(OutputMdDir(each_query)) \notin dirs
          \/ /\ exc \in MkdirFaults
             /\ log[Len(log)] = SearchingLine(each_query)
             /\ \A c \in 1..Len(calls) : calls[c].q # qi
    /\ pc \notin {"done", "aborted"} => ENABLED Next

(***************************************************************************)
(* C2, amended: no failed download and no failed conversion ends the run.  *)
(* Every step brings main() nearer to its end; it ends after every query   *)
(* had its "Searching for" step, or earlier, and then only because the     *)
(* result sequence of a query raised or because os.makedirs raised for a   *)
(* query, right after its "Searching for" line: its directory name, or a   *)
(* part of it, is the name of a file, or a directory, there already or     *)
(* not, could not be made or reached.                                      *)
(***************************************************************************)
C2_RunCompletes == [](C2_State) /\ [][Measure' < Measure]_vars

\* the run ended after two queries, a failed download and a failed conversion
C2_Witness ==
    /\ pc = "done"
    /\ Len(query_list) = 2
    /\ \E c \in 1..Len(calls) : calls[c].op = "download_pdf" /\ calls[c].out = "fail"
    /\ \E c \in 1..Len(calls) : calls[c].op = "convert" /\ calls[c].out = "fail"

(***************************************************************************)
(* C3: when the result sequence raises, main() ends there: nothing is      *)
(* logged by main(), no file or directory changes, and no step follows, so *)
(* no later record and no later query is processed.                        *)
(***************************************************************************)
Raised == \E c \in 1..Len(calls) : calls[c].out = "raise"

C3_ResultsErrorEndsRun ==
    [][Raised' => /\ pc' = "aborted"
                  /\ exc' = "ResultsError"
                  /\ log' = log
                  /\ files' = files
                  /\ dirs' = dirs
                  /\ qi' = qi
                  /\ index' = index]_vars

\* the sequence raised after a download, with a query of the list left
C3_Witness ==
    /\ Raised
    /\ pc = "aborted"
    /\ qi < Len(query_list)
    /\ DOMAIN files # {}
    /\ LinesOfKind("Downloaded ") # {}

(***************************************************************************)
(* C4: a query whose search has yielded N records has N "Downloading"      *)
(* lines; every record whose download_pdf has returned or raised has one   *)
(* "Downloaded" line when it returned and one "Error downloading" line     *)
(* when it raised, never both and never neither; the "Downloaded" lines of *)
(* the query are as many as its downloads that did not fail.               *)
(***************************************************************************)
C4_LineCounts ==
    \A q \in 1..Len(query_list) :
        /\ Cardinality(QueryLines(q, "Downloading ")) = Cardinality(YieldedOf(q))
        /\ Cardinality(QueryLines(q, "Downloaded "))
               = Cardinality({c \in 1..Len(calls) :
                                 calls[c].op = "download_pdf" /\ calls[c].q = q
                                 /\ calls[c].out = "ok"})
        /\ Cardinality(QueryLines(q, "Downloaded ")) <= Cardinality(YieldedOf(q))
        /\ \A c \in YieldedOf(q) :
              LET i == calls[c].i
                  ok == Cardinality(RecordLines(q, i, "Downloaded "))
                  err == Cardinality(RecordLines(q, i, "Error downloading "))
              IN  /\ InFlight(q, i) => ok = 0 /\ err = 0
                  /\ ~InFlight(q, i) =>
                        /\ ok + err = 1
                        /\ ok = 1 <=> CallsWith("download_pdf", q, i, "ok") # {}

\* a finished run with a query of two records, one downloaded and one not
C4_Witness ==
    /\ pc = "done"
    /\ \E q \in 1..Len(query_list) :
          /\ Cardinality(YieldedOf(q)) = 2
          /\ Cardinality(QueryLines(q, "Downloaded ")) = 1
          /\ Cardinality(QueryLines(q, "Error downloading ")) = 1

(* C5 as stated: while the records of a query are fetched, pdfs/<q>/ and   *)
(* mds/<q>/ exist, and os.makedirs for a query whose two directories are   *)
(* already there raises nothing and goes on to the records of the query.   *)
(***************************************************************************)
DirectoriesExist(q) ==
    /\ Norm(OutputPdfDir(q)) \in dirs
    /\ Norm(OutputMdDir(q)) \in dirs

C5_State ==
    /\ pc \in {"results", "download", "convert"} => DirectoriesExist(each_query)
    /\ \A c \in 1..Len(calls) :
          calls[c].op = "download_pdf" =>
              /\ QueryLines(calls[c].q, "Searching for ") # {}
              /\ DirectoriesExist(query_list[calls[c].q])

C5_Original ==
    /\ [](C5_State)
    /\ [][(pc = "query" /\ DirectoriesExist(each_query)) =>
             /\ pc' = "results"
             /\ exc' = ""]_vars

(***************************************************************************)
(* C5, amended: while the records of a query are fetched, pdfs/<q>/ and    *)
(* mds/<q>/ exist, so they exist before its first download attempt; that   *)
(* the two directories of a query are already there is no error: the       *)
(* os.makedirs step leaves the directories and the files as they are and   *)
(* goes on to the records of the query, or it ends the run with an error   *)
(* of reaching the directories (OSError, PermissionError,                  *)
(* FileNotFoundError), never with FileExistsError.                         *)
(***************************************************************************)
C5_DirectoriesFirst ==
    /\ [](C5_State)
    /\ [][(pc = "query" /\ DirectoriesExist(each_query)) =>
             /\ dirs' = dirs
             /\ files' = files
             /\ \/ pc' = "results" /\ exc' = ""
                \/ pc' = "aborted" /\ exc' \in MkdirFaults]_vars

\* the second query names the directories the first has made, and its first
\* download is about to be attempted
C5_Witness ==
    /\ pc = "download"
    /\ qi = 2
    /\ index = 1
    /\ OutputPdfDir(query_list[1]) = OutputPdfDir(query_list[2])
    /\ Cardinality(LinesOfKind("Searching for ")) = 2

(***************************************************************************)
(* C6: the step in which a conversion fails (markdown is on, the download  *)
(* of the record has succeeded) logs one "Error converting" line with the  *)
(* title of the record and no "Error downloading" line, leaves the PDF of  *)
(* the record and every file but the .md file of the record as they were,  *)
(* and goes on to the next record of the same query.                       *)
(***************************************************************************)
ConversionFailed(cs) ==
    cs # <<>> /\ cs[Len(cs)].op \in {"convert", "write_md"} /\ cs[Len(cs)].out = "fail"

C6_ConversionFailureKeepsPdf ==
    [][(Len(calls') = Len(calls) + 1 /\ ConversionFailed(calls')) =>
          LET new == SubSeq(log', Len(log) + 1, Len(log'))
          IN  /\ markdown
              /\ CallsWith("download_pdf", qi, index, "ok") # {}
              /\ Cardinality({k \in 1..Len(new) : Kind(new[k]) = "Error converting "
                                 /\ SubSeq(new[k].msg, 2, 1 + Len(title)) = title}) = 1
              /\ \A k \in 1..Len(new) :
                    Kind(new[k]) \notin {"Error downloading ", "Downloaded ", "Converted "}
              /\ SubSeq(log', 1, Len(log)) = log
              /\ Norm(PdfPath(each_query, title)) \in DOMAIN files
              /\ DOMAIN files' \subseteq DOMAIN files \cup {Norm(MdPath(each_query, title))}
              /\ \A path \in DOMAIN files \ {Norm(MdPath(each_query, title))} :
                    path \in DOMAIN files' /\ files'[path] = files[path]
              /\ dirs' = dirs
              /\ pc' = "results" /\ qi' = qi /\ index' = index]_vars

\* the writing of the .md file has just failed: the file holds the first
\* character of the markdown, the PDF of the record is on disk
C6_Witness ==
    /\ ConversionFailed(calls)
    /\ pc = "results"
    /\ PdfReadable(PdfPath(each_query, title))
    /\ Kind(log[Len(log)]) = "Error converting "
    /\ Norm(MdPath(each_query, title)) \in DOMAIN files
    /\ files[Norm(MdPath(each_query, title))] = MdFile(<<"\n">>)

(***************************************************************************)
(* A query whose search yielded nothing, at the end of its processing.     *)
(***************************************************************************)
\* query q has just been processed and its search yielded no record
ZeroResultEnd(q) ==
    /\ pc \in {"query", "done"}
    /\ calls # <<>>
    /\ calls[Len(calls)] = Call("results", q, 0, "stop")

\* path names a file right in directory dir
InDir(path, dir) ==
    /\ Len(path) > Len(dir)
    /\ SubSeq(path, 1, Len(dir)) = dir
    /\ \A k \in (Len(dir) + 1)..Len(path) : ~EndsDir(path[k])

FilesIn(dir) == {path \in DOMAIN files : InDir(path, Norm(dir))}

\* the queries before the q-th that name the directories of the q-th
SameDirBefore(q) ==
    {j \in 1..(q - 1) : Norm(OutputPdfDir(query_list[j])) = Norm(OutputPdfDir(query_list[q]))}

\* the files the calls for the queries before the q-th can have written
WrittenBefore(q) ==
    {Norm(PdfPath(query_list[calls[c].q], ResultTitle(calls[c].i))) :
        c \in {d \in 1..Len(calls) : calls[d].q < q /\ calls[d].op = "download_pdf"}}
    \cup {Norm(MdPath(query_list[calls[c].q], ResultTitle(calls[c].i))) :
        c \in {d \in 1..Len(calls) : /\ calls[d].q < q
                                     /\ \/ calls[d].op = "convert" /\ calls[d].out = "ok"
                                        \/ calls[d].op = "write_md"}}

C10_ConversionOnlyAfterDownload ==
    /\ \A k \in LinesOfKind("Converted ") \cup LinesOfKind("Error converting ") :
          LET q == QueryOfLine(k)
              i == RecordOfLine(k)
          IN  /\ markdown
              /\ i >= 1
              /\ CallsWith("download_pdf", q, i, "ok") # {}
              /\ CallsWith("download_pdf", q, i, "fail") = {}
              /\ \E d \in RecordLines(q, i, "Downloaded ") : d < k
              /\ Cardinality(RecordLines(q, i, "Converted ")
                             \cup RecordLines(q, i, "Error converting ")) = 1
    /\ \A c \in 1..Len(calls) :
          calls[c].op \in {"convert", "write_md"} =>
              /\ markdown
              /\ \E d \in 1..(c - 1) :
                    calls[d] = Call("download_pdf", calls[c].q, calls[c].i, "ok")
    /\ \A path \in DOMAIN files :
          path[1] = "./mds/" =>
              /\ markdown
              /\ \E c \in 1..Len(calls) :
                    /\ \/ calls[c].op = "convert" /\ calls[c].out = "ok"
                       \/ calls[c].op = "write_md" /\ calls[c].out = "fail"
                    /\ path = Norm(MdPath(query_list[calls[c].q], ResultTitle(calls[c].i)))
                    /\ CallsWith("download_pdf", calls[c].q, calls[c].i, "ok") # {}

\* one record was converted, another one of the run failed to download
C10_Witness ==
    /\ LinesOfKind("Converted ") # {}
    /\ LinesOfKind("Error downloading ") # {}
    /\ DOMAIN files # {}
    /\ pc = "done"

(***************************************************************************)
(* Reading the markdown: its lines.                                        *)
(***************************************************************************)
\* the lines of text, each without the line break that ends it; text after
\* the last line break is a line of its own
RECURSIVE LinesFrom(_, _)
LinesFrom(text, cur) ==
    IF text = <<>> THEN (IF cur = <<>> THEN <<>> ELSE <<cur>>)
    ELSE IF Head(text) = "\n" THEN <<cur>> \o LinesFrom(Tail(text), <<>>)
    ELSE LinesFrom(Tail(text), Append(cur, Head(text)))

TextLines(text) == LinesFrom(text, <<>>)

\* a line of the form "## Page N"
Digits == {"0", "1", "2", "3", "4", "5", "6", "7", "8", "9"}

IsHeadingLine(l) ==
    /\ Len(l) > 8
    /\ SubSeq(l, 1, 8) = <<"#", "#", " ", "P", "a", "g", "e", " ">>
    /\ \A k \in 9..Len(l) : l[k] \in Digits

IsNonEmpty(l) == l # <<>>

HeadingLines(text) == SelectSeq(TextLines(text), IsHeadingLine)

\* "## Page 1", ..., "## Page n"
HeadingsTo(n) == [k \in 1..n |-> PageHeading(k)]

\* a candidate paragraph with a character that is not whitespace
HasText(paragraph) == \E k \in 1..Len(paragraph) : ~IsSpace(paragraph[k])

\* the candidate paragraphs of a page text that are not whitespace only,
\* each on one line and trimmed
Trimmed(paragraph) ==
    LET one == [k \in 1..Len(paragraph) |->
                   IF paragraph[k] = "\n" THEN " " ELSE paragraph[k]]
        first == CHOOSE k \in 1..Len(one) :
                    ~IsSpace(one[k]) /\ \A j \in 1..(k - 1) : IsSpace(one[j])
        last == CHOOSE k \in 1..Len(one) :
                    ~IsSpace(one[k]) /\ \A j \in (k + 1)..Len(one) : IsSpace(one[j])
    IN  SubSeq(one, first, last)

PageParagraphs(text) ==
    LET kept == SelectSeq(SplitBlank(text), HasText)
    IN  [k \in 1..Len(kept) |-> Trimmed(kept[k])]

\* the lines that are not empty of the markdown of the first n pages: the
\* heading of each page, then its paragraphs
RECURSIVE ExpectedLines(_, _)
ExpectedLines(pages, n) ==
    IF n = 0 THEN <<>>
    ELSE ExpectedLines(pages, n - 1)
         \o <<PageHeading(n)>> \o PageParagraphs(pages[n])

\* the paragraphs of the first n pages, and those of the form "## Page N"
RECURSIVE ParagraphCount(_, _)
ParagraphCount(pages, n) ==
    IF n = 0 THEN 0
    ELSE ParagraphCount(pages, n - 1) + Len(PageParagraphs(pages[n]))

RECURSIVE HeadingParagraphs(_, _)
HeadingParagraphs(pages, n) ==
    IF n = 0 THEN 0
    ELSE HeadingParagraphs(pages, n - 1)
         + Len(SelectSeq(PageParagraphs(pages[n]), IsHeadingLine))

(***************************************************************************)
(* C8, as claimed: whatever the page text, the lines of the form           *)
(* "## Page N" of the returned markdown are "## Page 1" to                 *)
(* "## Page pageCount", in this order.                                     *)
(***************************************************************************)
C8_Original ==
    cpc = "returned" => HeadingLines(markdown_text) = HeadingsTo(Len(pdf_pages))

(***************************************************************************)
(* C8, amended: after n pages the lines of the markdown that are not empty *)
(* are, page by page from 1 to n, the heading "## Page N" of the page and  *)
(* then its paragraphs.  The lines of the form "## Page N" are the n       *)
(* headings and the paragraphs of page text that read "## Page N"          *)
(* themselves: they are "## Page 1" to "## Page n" in order exactly when   *)
(* no paragraph reads so.                                                  *)
(***************************************************************************)
C8_PageHeadings ==
    /\ SelectSeq(TextLines(markdown_text), IsNonEmpty) = ExpectedLines(pdf_pages, page_num)
    /\ Len(HeadingLines(markdown_text)) = page_num + HeadingParagraphs(pdf_pages, page_num)
    /\ HeadingParagraphs(pdf_pages, page_num) = 0 =>
          HeadingLines(markdown_text) = HeadingsTo(page_num)
    /\ cpc = "returned" => page_num = Len(pdf_pages)

\* a PDF of two pages was converted: a page with a paragraph and a page
\* whose paragraph reads "## Page 1"
C8_Witness ==
    /\ cpc = "returned"
    /\ Len(pdf_pages) = 2
    /\ pdf_pages[1] = <<"a">>
    /\ pdf_pages[2] = PageHeading(1)
    /\ Len(HeadingLines(markdown_text)) = 3

(***************************************************************************)
(* C9: the markdown holds no paragraph for a candidate paragraph that is   *)
(* whitespace only.  Every line of it that is not empty starts and ends    *)
(* with a character that is not whitespace and is followed by an empty     *)
(* line; the markdown ends with a line break; its lines that are not empty *)
(* are the page headings and one line for each candidate paragraph with    *)
(* text, and its line breaks are the three of each heading and the two of  *)
(* each such paragraph, so no empty paragraph was written.  A line break   *)
(* is "\n", the one character the conversion replaces inside a paragraph.  *)
(***************************************************************************)
C9_NoEmptyParagraphs ==
    LET L == TextLines(markdown_text)
        breaks == Cardinality({k \in 1..Len(markdown_text) : markdown_text[k] = "\n"})
        paragraphs == ParagraphCount(pdf_pages, page_num)
    IN  /\ \A k \in 1..Len(L) :
              L[k] # <<>> =>
                  /\ ~IsSpace(L[k][1])
                  /\ ~IsSpace(L[k][Len(L[k])])
                  /\ k < Len(L)
                  /\ L[k + 1] = <<>>
        /\ markdown_text # <<>> => markdown_text[Len(markdown_text)] = "\n"
        /\ Len(SelectSeq(L, IsNonEmpty)) = page_num + paragraphs
        /\ breaks = 3 * page_num + 2 * paragraphs
        /\ Len(L) = breaks

\* a page with a paragraph and a candidate paragraph of one carriage return
\* was converted
C9_Witness ==
    /\ cpc = "returned"
    /\ pdf_pages = <<<<"a", "\n", "\n", "\r">>>>
    /\ markdown_text = <<"\n">> \o PageHeading(1) \o <<"\n", "\n", "a", "\n", "\n">>

====
